---- MODULE Spec2Model ----
(***************************************************************************)
(* Model of the Mitchell home manager's reminder core                      *)
(* (src/mitchell-home-manager/reminders.py, home_manager.py, config.py).   *)
(*                                                                         *)
(* Time is an integer count of clock ticks since 2024-01-01T00:00:00 (a    *)
(* Monday); one second is TicksPerSecond ticks, so sub-second clock        *)
(* readings (datetime.now() carries microseconds) are representable.       *)
(* One run of a handler reads the clock as one instant `now`.              *)
(* Emoji code points of the configured messages are written "@" (one "@"   *)
(* per code point), since only their count matters to message[:20].        *)
(***************************************************************************)
EXTENDS Integers, Sequences, FiniteSets, TLC

VARIABLES now, store, sent_reminders, sinkLog, ret, writers

vars == <<now, store, sent_reminders, sinkLog, ret, writers>>

(***************************************************************************)
(* Bounds of the model.                                                    *)
(***************************************************************************)
TicksPerSecond == 2
MaxStore == 2

(***************************************************************************)
(* datetime arithmetic.                                                    *)
(***************************************************************************)
Sec(n) == n * TicksPerSecond
Minutes(n) == Sec(60 * n)
Hours(n) == Sec(3600 * n)
Days(n) == Sec(86400 * n)
TimeOfDay(h, m) == Hours(h) + Minutes(m)
DateOf(t) == t \div Days(1)
ClockOf(t) == t % Days(1)
Combine(date, tod) == Days(date) + tod
Abs(x) == IF x < 0 THEN 0 - x ELSE x

DayNames == <<"monday", "tuesday", "wednesday", "thursday", "friday", "saturday", "sunday">>
DayName(t) == DayNames[(DateOf(t) % 7) + 1]

(***************************************************************************)
(* datetime.isoformat() / datetime.fromisoformat().  The date of day d is  *)
(* 2024-01-(d+1); the microsecond field is printed only when non-zero.     *)
(***************************************************************************)
Pad2(n) == IF n < 10 THEN "0" \o ToString(n) ELSE ToString(n)
RECURSIVE PadLeft(_, _)
PadLeft(s, w) == IF Len(s) >= w THEN s ELSE PadLeft("0" \o s, w)
MicrosOf(t) == ((t % TicksPerSecond) * 1000000) \div TicksPerSecond
IsoFormat(t) ==
    LET c == ClockOf(t) \div TicksPerSecond
        base == "2024-01-" \o Pad2(DateOf(t) + 1) \o "T" \o Pad2(c \div 3600) \o ":"
                \o Pad2((c % 3600) \div 60) \o ":" \o Pad2(c % 60)
    IN  IF MicrosOf(t) = 0 THEN base ELSE base \o "." \o PadLeft(ToString(MicrosOf(t)), 6)

Digits == <<"0", "1", "2", "3", "4", "5", "6", "7", "8", "9">>
DigitVal(ch) == (CHOOSE i \in 1..10 : Digits[i] = ch) - 1
RECURSIVE ParseInt(_)
ParseInt(s) ==
    IF Len(s) = 0 THEN 0
    ELSE 10 * ParseInt(SubSeq(s, 1, Len(s) - 1)) + DigitVal(SubSeq(s, Len(s), Len(s)))
FromIsoFormat(s) ==
    LET date == ParseInt(SubSeq(s, 9, 10)) - 1
        hh == ParseInt(SubSeq(s, 12, 13))
        mm == ParseInt(SubSeq(s, 15, 16))
        ss == ParseInt(SubSeq(s, 18, 19))
        us == IF Len(s) > 19 THEN ParseInt(SubSeq(s, 21, 26)) ELSE 0
    IN  Days(date) + Sec(hh * 3600 + mm * 60 + ss)
        + ((us * TicksPerSecond + 999999) \div 1000000)

(***************************************************************************)
(* config.py                                                               *)
(***************************************************************************)
ACTIVITIES == <<
    [name |-> "Kumon", kids |-> <<"Reagan", "Rory">>, day |-> "monday", time |-> TimeOfDay(17, 0)],
    [name |-> "Kumon", kids |-> <<"Reagan", "Rory">>, day |-> "wednesday", time |-> TimeOfDay(17, 0)],
    [name |-> "Gymnastics", kids |-> <<"Reagan">>, day |-> "monday", time |-> TimeOfDay(19, 0)],
    [name |-> "Cheer", kids |-> <<"Reagan">>, day |-> "wednesday", time |-> TimeOfDay(18, 30)],
    [name |-> "Tumbling", kids |-> <<"Reagan">>, day |-> "thursday", time |-> TimeOfDay(17, 0)],
    [name |-> "Gymnastics", kids |-> <<"Rory">>, day |-> "wednesday", time |-> TimeOfDay(18, 30)],
    [name |-> "Gymnastics", kids |-> <<"Owen">>, day |-> "saturday", time |-> TimeOfDay(11, 30)] >>

RECURRING_REMINDERS == <<
    [day |-> "tuesday", time |-> TimeOfDay(19, 0), message |-> "@@ Trash goes out tonight!"],
    [day |-> "wednesday", time |-> TimeOfDay(7, 30),
     message |-> "@@ Trash pickup today - take bins to curb"],
    [day |-> "sunday", time |-> TimeOfDay(19, 0),
     message |-> "@ Review the week ahead. Any schedule changes?"] >>

PREP_REMINDERS ==
    [n \in {"Kumon", "Gymnastics", "Cheer", "Tumbling"} |->
        CASE n = "Kumon" -> [time_before |-> 30, message |-> "@ Kumon in 30 min - grab folders!"]
          [] n = "Gymnastics" ->
                [time_before |-> 45, message |-> "@ Gymnastics soon - pack leotard/bag!"]
          [] n = "Cheer" ->
                [time_before |-> 45, message |-> "@ Cheer practice soon - pack uniform!"]
          [] n = "Tumbling" -> [time_before |-> 45, message |-> "@ Tumbling soon - pack gear!"]]

BEDTIME_OWEN == TimeOfDay(20, 0)
BEDTIME_OLDER_KIDS == TimeOfDay(21, 0)

(***************************************************************************)
(* Python string helpers: s[:n], `p in s`, repr() of a list of names.      *)
(***************************************************************************)
Prefix(s, n) == IF Len(s) <= n THEN s ELSE SubSeq(s, 1, n)
Contains(s, p) == \E i \in 1..(Len(s) - Len(p) + 1) : SubSeq(s, i, i + Len(p) - 1) = p
RECURSIVE JoinQuoted(_, _)
JoinQuoted(names, i) ==
    IF i > Len(names) THEN ""
    ELSE (IF i > 1 THEN ", " ELSE "") \o "'" \o names[i] \o "'" \o JoinQuoted(names, i + 1)
ListRepr(names) == "[" \o JoinQuoted(names, 1) \o "]"

(***************************************************************************)
(* json.dump / json.load of a string value: the two escapes that matter    *)
(* to the text of a reminder.  A quote that is not escaped ends the JSON   *)
(* string early, so the document does not parse.                           *)
(***************************************************************************)
RECURSIVE JsonDumps(_)
JsonDumps(s) ==
    IF Len(s) = 0 THEN ""
    ELSE LET c == SubSeq(s, 1, 1)
             rest == JsonDumps(SubSeq(s, 2, Len(s)))
         IN  IF c = "\"" \/ c = "\\" THEN "\\" \o c \o rest ELSE c \o rest
RECURSIVE JsonLoads(_)
JsonLoads(s) ==
    IF Len(s) = 0 THEN ""
    ELSE IF SubSeq(s, 1, 1) = "\\" /\ Len(s) >= 2
         THEN SubSeq(s, 2, 2) \o JsonLoads(SubSeq(s, 3, Len(s)))
         ELSE SubSeq(s, 1, 1) \o JsonLoads(SubSeq(s, 2, Len(s)))

RECURSIVE JsonValid(_)
JsonValid(s) ==
    IF Len(s) = 0 THEN TRUE
    ELSE IF SubSeq(s, 1, 1) = "\\" THEN Len(s) >= 2 /\ JsonValid(SubSeq(s, 3, Len(s)))
    ELSE SubSeq(s, 1, 1) # "\"" /\ JsonValid(SubSeq(s, 2, Len(s)))

(***************************************************************************)
(* The file custom_reminders.json, as json.load reads it: absent, not      *)
(* parseable as JSON, or a list of objects with string values.             *)
(***************************************************************************)
AbsentStore == [state |-> "absent", records |-> <<>>]
CorruptStore == [state |-> "corrupt", records |-> <<>>]
ListStore(recs) == [state |-> "list", records |-> recs]

Raised == [ok |-> FALSE, val |-> <<>>]
Returned(v) == [ok |-> TRUE, val |-> v]

(* json.load(f) under `except FileNotFoundError` in check_custom_reminders *)
(* and add_custom_reminder: the parsed list, or the exception.             *)
LoadStore(st, whenAbsent) ==
    CASE st.state = "absent" -> whenAbsent
      [] st.state = "corrupt" -> Raised
      [] OTHER -> Returned(st.records)

(***************************************************************************)
(* The four source adapters, reminders.py lines 23-121.                    *)
(***************************************************************************)
Reminder(t, m, ty) == [time |-> t, message |-> m, type |-> ty]

get_today_activities(t) == SelectSeq(ACTIVITIES, LAMBDA a : a.day = DayName(t))

(* get_activity_prep_reminders with the module-level mapping bound to      *)
(* prep: `if activity_name in PREP_REMINDERS`, then the lead time and the  *)
(* future test.                                                            *)
PrepTimeUnder(prep, a, t) ==
    Combine(DateOf(t), a.time) - Minutes(prep[a.name].time_before)
PrepKeepsUnder(prep, a, t) == a.name \in DOMAIN prep /\ PrepTimeUnder(prep, a, t) > t
(* Mutant: an activity that is not in the mapping gets a lead of 30 min.   *)
PrepRemindersUnder_DefaultLead(prep, t) ==
    LET lead(a) == IF a.name \in DOMAIN prep THEN prep[a.name].time_before ELSE 30
        kept == SelectSeq(get_today_activities(t),
                          LAMBDA a : Combine(DateOf(t), a.time) - Minutes(lead(a)) > t)
    IN  [i \in 1..Len(kept) |->
            Reminder(Combine(DateOf(t), kept[i].time) - Minutes(lead(kept[i])),
                     "@ " \o (IF kept[i].name \in DOMAIN prep
                              THEN prep[kept[i].name].message ELSE kept[i].name)
                        \o " (" \o ListRepr(kept[i].kids) \o ")",
                     "activity_prep")]
PrepRemindersUnder(prep, t) ==
    LET kept == SelectSeq(get_today_activities(t), LAMBDA a : PrepKeepsUnder(prep, a, t))
    IN  [i \in 1..Len(kept) |->
            Reminder(PrepTimeUnder(prep, kept[i], t),
                     "@ " \o prep[kept[i].name].message
                        \o " (" \o ListRepr(kept[i].kids) \o ")",
                     "activity_prep")]

PrepTime(a, t) == PrepTimeUnder(PREP_REMINDERS, a, t)
PrepKeeps(a, t) == PrepKeepsUnder(PREP_REMINDERS, a, t)
get_activity_prep_reminders(t) == PrepRemindersUnder(PREP_REMINDERS, t)

RecurringKeeps(r, t) == r.day = DayName(t) /\ Combine(DateOf(t), r.time) > t
get_recurring_reminders(t) ==
    LET kept == SelectSeq(RECURRING_REMINDERS, LAMBDA r : RecurringKeeps(r, t))
    IN  [i \in 1..Len(kept) |->
            Reminder(Combine(DateOf(t), kept[i].time), kept[i].message, "recurring")]

BedtimeKeeps(prep, t) == prep > t /\ DateOf(prep) = DateOf(t)
get_bedtime_reminders(t) ==
    LET owen_prep == Combine(DateOf(t), BEDTIME_OWEN) - Minutes(30)
        older_prep == Combine(DateOf(t), BEDTIME_OLDER_KIDS) - Minutes(30)
    IN  (IF BedtimeKeeps(owen_prep, t)
         THEN <<Reminder(owen_prep, "@ Owen bedtime in 30 min - start wind-down routine",
                         "bedtime")>>
         ELSE <<>>)
        \o
        (IF BedtimeKeeps(older_prep, t)
         THEN <<Reminder(older_prep, "@ Reagan & Rory bedtime in 30 min - start routines",
                         "bedtime")>>
         ELSE <<>>)

(* Mutant: the date of the record is not compared with today's. *)
CustomKeeps_AnyDate(reminder_time, t) == reminder_time > t
CustomKeeps(reminder_time, t) == reminder_time > t /\ DateOf(reminder_time) = DateOf(t)
(* r['time'] of every record is read; r['message'] only of a kept one.     *)
CustomRecordRaises(r, t) ==
    \/ "time" \notin DOMAIN r
    \/ CustomKeeps(FromIsoFormat(r.time), t) /\ "message" \notin DOMAIN r
check_custom_reminders(t, st) ==
    LET loaded == LoadStore(st, Returned(<<>>))
        custom == loaded.val
    IN  IF ~loaded.ok THEN Raised
        ELSE IF \E i \in 1..Len(custom) : CustomRecordRaises(custom[i], t) THEN Raised
        ELSE LET kept == SelectSeq(custom, LAMBDA r : CustomKeeps(FromIsoFormat(r.time), t))
             IN  Returned([i \in 1..Len(kept) |->
                            Reminder(FromIsoFormat(kept[i].time), kept[i].message, "custom")])

(***************************************************************************)
(* get_upcoming_reminders, reminders.py lines 123-139.                     *)
(***************************************************************************)
(* list.sort(key=lambda x: x['time']): a stable sort, as insertion of each *)
(* element after the elements whose key is not larger.                     *)
(* Mutant: an element goes in front of the elements with an equal key. *)
RECURSIVE InsertByTime_BeforeEqual(_, _)
InsertByTime_BeforeEqual(sorted, r) ==
    IF Len(sorted) = 0 THEN <<r>>
    ELSE IF sorted[Len(sorted)].time < r.time THEN Append(sorted, r)
    ELSE Append(InsertByTime_BeforeEqual(SubSeq(sorted, 1, Len(sorted) - 1), r),
                sorted[Len(sorted)])
RECURSIVE InsertByTime(_, _)
InsertByTime(sorted, r) ==
    IF Len(sorted) = 0 THEN <<r>>
    ELSE IF sorted[Len(sorted)].time <= r.time THEN Append(sorted, r)
    ELSE Append(InsertByTime(SubSeq(sorted, 1, Len(sorted) - 1), r), sorted[Len(sorted)])
RECURSIVE SortFrom(_, _, _)
SortFrom(list, i, acc) ==
    IF i > Len(list) THEN acc ELSE SortFrom(list, i + 1, InsertByTime(acc, list[i]))
(* Mutant: the list is returned in concatenation order. *)
SortByTime_Unsorted(list) == list
SortByTime(list) == SortFrom(list, 1, <<>>)

Cutoff(t, hours_ahead) == t + Hours(hours_ahead)
KeepUpcoming(all, cutoff) == SelectSeq(all, LAMBDA r : r.time <= cutoff)

(* The concatenation of the four adapters' lists; an exception of the      *)
(* custom adapter is not caught.                                           *)
all_reminders(t, st) ==
    LET custom == check_custom_reminders(t, st)
    IN  IF ~custom.ok THEN Raised
        ELSE Returned(get_activity_prep_reminders(t) \o get_recurring_reminders(t)
                      \o get_bedtime_reminders(t) \o custom.val)

get_upcoming_reminders(t, hours_ahead, st) ==
    LET all == all_reminders(t, st)
    IN  IF ~all.ok THEN Raised
        ELSE Returned(SortByTime(KeepUpcoming(all.val, Cutoff(t, hours_ahead))))

(***************************************************************************)
(* send_due_reminders, reminders.py lines 146-163.  The sink               *)
(* (_send_message) may raise; failAt is the number of the invocation of    *)
(* the sink, within one call, that raises (0: none does).                  *)
(***************************************************************************)
WINDOW_SECONDS == 300
ID_PREFIX_LEN == 20

(* Mutant: a reminder exactly WINDOW_SECONDS away is inside the window. *)
InWindow_Inclusive(r, t) == Abs(r.time - t) <= Sec(WINDOW_SECONDS)
InWindow(r, t) == Abs(r.time - t) < Sec(WINDOW_SECONDS)
ReminderId(r) == IsoFormat(r.time) \o "_" \o Prefix(r.message, ID_PREFIX_LEN)
(* Mutant: the ledger is never consulted. *)
NotYetSent_Always(reminder_id, ledger) == TRUE
NotYetSent(reminder_id, ledger) == reminder_id \notin ledger

(* One invocation of the sink: the reminder, the clock reading of the call *)
(* and whether the sink accepted the message.                              *)
Handed(r, t, sunk) == [time |-> r.time, message |-> r.message, at |-> t, ok |-> sunk]

LoopStart(ledger, log) ==
    [ledger |-> ledger, log |-> log, sent |-> <<>>, attempts |-> 0, failed |-> <<>>]

(* One iteration of `for reminder in upcoming`; the key is added to        *)
(* sent_reminders before _send_message is called.                          *)
SendOne(st, r, t, failAt) ==
    IF ~InWindow(r, t) \/ ~NotYetSent(ReminderId(r), st.ledger) THEN st
    ELSE IF st.attempts + 1 = failAt
         THEN [st EXCEPT !.ledger = @ \cup {ReminderId(r)},
                         !.log = Append(@, Handed(r, t, FALSE)),
                         !.attempts = @ + 1,
                         !.failed = <<r>>]
         ELSE [st EXCEPT !.ledger = @ \cup {ReminderId(r)},
                         !.log = Append(@, Handed(r, t, TRUE)),
                         !.attempts = @ + 1,
                         !.sent = Append(@, r)]

(* The loop; an exception raised by the sink leaves it at once. *)
RECURSIVE SendLoop(_, _, _, _, _)
SendLoop(upcoming, i, st, t, failAt) ==
    IF i > Len(upcoming) \/ st.failed # <<>> THEN st
    ELSE SendLoop(upcoming, i + 1, SendOne(st, upcoming[i], t, failAt), t, failAt)

(***************************************************************************)
(* The result of the call made at the present instant, if any: the        *)
(* operation, the clock reading, its argument, whether it returned (ok)    *)
(* or raised, the list it returned, the reminder the sink raised on, and   *)
(* the kind of reply text and, for a command, the branch taken.  NoResult: *)
(* no call since the clock last moved.                                     *)
(***************************************************************************)
Result(op, arg, ok, out, failed, reply) ==
    [op |-> op, at |-> now, arg |-> arg, ok |-> ok, out |-> out, failed |-> failed,
     reply |-> reply, intent |-> ""]

NoResult == [op |-> "", at |-> 0, arg |-> 0, ok |-> TRUE, out |-> <<>>, failed |-> <<>>,
             reply |-> "", intent |-> ""]

send_due_reminders(t, st, ledger, log, failAt) ==
    LET upcoming == get_upcoming_reminders(t, 1, st)
    IN  IF ~upcoming.ok THEN [LoopStart(ledger, log) EXCEPT !.attempts = 0 - 1]
        ELSE SendLoop(upcoming.val, 1, LoopStart(ledger, log), t, failAt)

(* The value send_due_reminders leaves to its caller: the list `sent`, or  *)
(* the exception of the aggregator or of the sink.                         *)
SendResult(res) ==
    Result("send_due_reminders", 1, res.attempts >= 0 /\ res.failed = <<>>,
           IF res.failed = <<>> THEN res.sent ELSE <<>>, res.failed, "")

SendDueReminders ==
    \E failAt \in 0..Len(get_upcoming_reminders(now, 1, store).val) :
        LET res == send_due_reminders(now, store, sent_reminders, sinkLog, failAt)
        IN  /\ sent_reminders' = res.ledger
            /\ sinkLog' = res.log
            /\ ret' = SendResult(res)
            /\ UNCHANGED <<now, store, writers>>

(***************************************************************************)
(* get_upcoming_reminders as called by its users: hours_ahead is 1         *)
(* (send_due_reminders), 12 (the default) or 24 (show_todays_reminders).   *)
(***************************************************************************)
HoursAhead == {1, 12, 24}

GetUpcomingReminders ==
    \E h \in HoursAhead :
        LET upcoming == get_upcoming_reminders(now, h, store)
        IN  /\ ret' = Result("get_upcoming_reminders", h, upcoming.ok, upcoming.val, <<>>, "")
            /\ UNCHANGED <<now, store, sent_reminders, sinkLog, writers>>

(***************************************************************************)
(* add_custom_reminder, reminders.py lines 172-189.                        *)
(***************************************************************************)
NewRecord(message, when, created) ==
    [message |-> message, time |-> IsoFormat(when), created |-> IsoFormat(created)]

(* json.dump(custom, f) followed by the next json.load(f): every string of *)
(* the list goes through the encoder and the decoder.                      *)
DumpRecord(r) == [k \in DOMAIN r |-> JsonDumps(r[k])]
(* Mutant: only the record just appended is written. *)
WriteStore_LastOnly(custom) ==
    ListStore(IF custom = <<>> THEN <<>> ELSE <<custom[Len(custom)]>>)
WriteStore(custom) ==
    LET dumped == [i \in 1..Len(custom) |-> DumpRecord(custom[i])]
    IN  IF \A i \in 1..Len(dumped) : \A k \in DOMAIN dumped[i] : JsonValid(dumped[i][k])
        THEN ListStore([i \in 1..Len(dumped) |->
                          [k \in DOMAIN dumped[i] |-> JsonLoads(dumped[i][k])]])
        ELSE CorruptStore

(* Mutant: records whose time has passed are dropped when the list is     *)
(* written back.                                                           *)
add_custom_reminder_DropsExpired(st, message, when, t) ==
    LET loaded == LoadStore(st, Returned(<<>>))
        live == SelectSeq(loaded.val,
                          LAMBDA r : "time" \in DOMAIN r => FromIsoFormat(r.time) > t)
    IN  IF ~loaded.ok THEN st
        ELSE WriteStore(Append(live, NewRecord(message, when, t)))
(* Mutant: the list is started afresh instead of loaded from the file. *)
add_custom_reminder_Overwrite(st, message, when, t) ==
    IF ~LoadStore(st, Returned(<<>>)).ok THEN st
    ELSE WriteStore(<<NewRecord(message, when, t)>>)
add_custom_reminder(st, message, when, t) ==
    LET loaded == LoadStore(st, Returned(<<>>))
    IN  IF ~loaded.ok THEN st
        ELSE WriteStore(Append(loaded.val, NewRecord(message, when, t)))

At(d, h, m, sec) == Days(d) + Sec(h * 3600 + m * 60 + sec)

(* The reminders a caller adds: <<message, reminder_time>>. *)
CustomReminders ==
    { <<"water plants", At(2, 17, 45, 0)>>,
      <<"call \"nana\"", At(3, 0, 2, 0) + 1>> }

AddCustomReminder ==
    \E added \in CustomReminders :
      LET message == added[1]
          when == added[2]
      IN
        /\ Len(store.records) < MaxStore
        /\ store' = add_custom_reminder(store, message, when, now)
        /\ ret' = Result("add_custom_reminder", <<message, when>>,
                         LoadStore(store, Returned(<<>>)).ok, <<>>,
                         <<>>, IF LoadStore(store, Returned(<<>>)).ok THEN "reminder_set" ELSE "")
        /\ UNCHANGED <<now, sent_reminders, sinkLog, writers>>

(***************************************************************************)
(* add_custom_reminder run by processes of their own, reminders.py lines   *)
(* 172-187: the file is read (lines 174-178), the record is appended to    *)
(* the list in memory (lines 180-184) and the list is written back (lines  *)
(* 186-187), with no lock: steps of other processes come in between.       *)
(* writers.proc[p] is where process p stands and the list it holds,        *)
(* writers.order the processes in the order of their steps.                *)
(***************************************************************************)
Procs == {1, 2}
Idle == [pc |-> "start", custom |-> <<>>]
NoWriters == [proc |-> [p \in Procs |-> Idle], order |-> <<>>]

WriterLoads(p) ==
    /\ writers.proc[p].pc = "start"
    /\ \E added \in CustomReminders :
        \E loaded \in {LoadStore(store, Returned(<<>>))} :
          writers' = [proc |-> [writers.proc EXCEPT ![p] =
                                  IF loaded.ok
                                  THEN [pc |-> "loaded",
                                        custom |-> Append(loaded.val,
                                                          NewRecord(added[1], added[2], now))]
                                  ELSE [pc |-> "raised", custom |-> <<>>]],
                      order |-> Append(writers.order, p)]
    /\ UNCHANGED <<now, store, sent_reminders, sinkLog, ret>>

WriterDumps(p) ==
    /\ writers.proc[p].pc = "loaded"
    /\ store' = WriteStore(writers.proc[p].custom)
    /\ writers' = [proc |-> [writers.proc EXCEPT ![p].pc = "done"],
                   order |-> Append(writers.order, p)]
    /\ UNCHANGED <<now, sent_reminders, sinkLog, ret>>

InitRace ==
    /\ now = At(2, 7, 0, 0)
    /\ store \in {AbsentStore, CorruptStore,
                   ListStore(<<NewRecord("water plants", At(1, 17, 45, 0), At(1, 9, 0, 0))>>)}
    /\ sent_reminders = {}
    /\ sinkLog = <<>>
    /\ ret = NoResult
    /\ writers = NoWriters

NextRace == \E p \in Procs : WriterLoads(p) \/ WriterDumps(p)

SpecRace == InitRace /\ [][NextRace]_vars

(***************************************************************************)
(* home_manager.py: str.lower(), str.strip() and the regular expressions   *)
(* of _parse_reminder and _parse_time, as searches over the text.          *)
(***************************************************************************)
UpperCase == <<"A", "B", "C", "D", "E", "F", "G", "H", "I", "J", "K", "L", "M",
               "N", "O", "P", "Q", "R", "S", "T", "U", "V", "W", "X", "Y", "Z">>
LowerCase == <<"a", "b", "c", "d", "e", "f", "g", "h", "i", "j", "k", "l", "m",
               "n", "o", "p", "q", "r", "s", "t", "u", "v", "w", "x", "y", "z">>
CharAt(s, i) == SubSeq(s, i, i)
LowerChar(c) ==
    IF c \in {UpperCase[i] : i \in 1..26}
    THEN LowerCase[CHOOSE i \in 1..26 : UpperCase[i] = c]
    ELSE c
RECURSIVE LowerFrom(_, _)
LowerFrom(s, i) ==
    IF i > Len(s) THEN "" ELSE LowerChar(CharAt(s, i)) \o LowerFrom(s, i + 1)
Lower(s) == LowerFrom(s, 1)

IsSpace(c) == c \in {" ", "\t", "\n"}
RECURSIVE LeadingEnd(_, _)
LeadingEnd(s, i) == IF i <= Len(s) /\ IsSpace(CharAt(s, i)) THEN LeadingEnd(s, i + 1) ELSE i
RECURSIVE TrailingStart(_, _)
TrailingStart(s, j) == IF j >= 1 /\ IsSpace(CharAt(s, j)) THEN TrailingStart(s, j - 1) ELSE j
Strip(s) ==
    IF LeadingEnd(s, 1) > Len(s) THEN ""
    ELSE SubSeq(s, LeadingEnd(s, 1), TrailingStart(s, Len(s)))

StartsAt(s, p, lit) == p + Len(lit) - 1 <= Len(s) /\ SubSeq(s, p, p + Len(lit) - 1) = lit
IsDigit(c) == \E i \in 1..10 : Digits[i] = c
Least(S) == CHOOSE x \in S : \A y \in S : x <= y

(* (.+?)(?: at| on| every|$) from position b: the shortest body of at      *)
(* least one character that a terminator or the end of the text follows.   *)
BodyTerminated(s, e) ==
    e = Len(s) \/ StartsAt(s, e + 1, " at") \/ StartsAt(s, e + 1, " on")
               \/ StartsAt(s, e + 1, " every")
BodyEnd(s, b) == Least({e \in b..Len(s) : BodyTerminated(s, e)})

(* head (?:to )?(.+?)...: where the body starts for a match that begins    *)
(* at p, 0 when there is none; "to " is taken when a body can follow it.   *)
BodyStart(s, p, head) ==
    IF ~StartsAt(s, p, head) THEN 0
    ELSE LET q == p + Len(head)
         IN  IF StartsAt(s, q, "to ") /\ q + 3 <= Len(s) THEN q + 3
             ELSE IF q <= Len(s) THEN q
             ELSE 0

NoMatch == [found |-> FALSE, text |-> ""]
(* re.search(pattern, text).group(1) for the pattern with these heads. *)
SearchBody(s, heads) ==
    LET starts == {p \in 1..Len(s) : \E h \in heads : BodyStart(s, p, h) > 0}
    IN  IF starts = {} THEN NoMatch
        ELSE LET p == Least(starts)
                 h == CHOOSE x \in heads : BodyStart(s, p, x) > 0
                 b == BodyStart(s, p, h)
             IN  [found |-> TRUE, text |-> SubSeq(s, b, BodyEnd(s, b))]

(* The loop over the two patterns of _parse_reminder and the strip(). *)
ExtractMessage(s) ==
    LET m1 == SearchBody(s, {"remind me ", "remind us "})
        m2 == SearchBody(s, {"set reminder "})
    IN  IF m1.found THEN Strip(m1.text)
        ELSE IF m2.found THEN Strip(m2.text)
        ELSE ""

(* The end of the longest run of digits that starts at p (p - 1: none). *)
RECURSIVE DigitsEnd(_, _)
DigitsEnd(s, p) == IF p <= Len(s) /\ IsDigit(CharAt(s, p)) THEN DigitsEnd(s, p + 1) ELSE p - 1
RECURSIVE SkipSpaces(_, _)
SkipSpaces(s, p) == IF p <= Len(s) /\ IsSpace(CharAt(s, p)) THEN SkipSpaces(s, p + 1) ELSE p
(* \s*(am|pm) from position p: the suffix found, "" when there is none. *)
AmPmAt(s, p) ==
    LET q == SkipSpaces(s, p)
    IN  IF StartsAt(s, q, "am") THEN "am" ELSE IF StartsAt(s, q, "pm") THEN "pm" ELSE ""

NoClock == [found |-> FALSE, hour |-> 0, minute |-> 0, ampm |-> ""]
Clock(h, m, ap) == [found |-> TRUE, hour |-> h, minute |-> m, ampm |-> ap]

(* at (\d+):(\d+)\s*(am|pm)? *)
SpecificAt(s, p) ==
    LET h1 == p + 3
        h2 == DigitsEnd(s, h1)
        m1 == h2 + 2
        m2 == DigitsEnd(s, m1)
    IN  IF StartsAt(s, p, "at ") /\ h2 >= h1 /\ StartsAt(s, h2 + 1, ":") /\ m2 >= m1
        THEN Clock(ParseInt(SubSeq(s, h1, h2)), ParseInt(SubSeq(s, m1, m2)), AmPmAt(s, m2 + 1))
        ELSE NoClock
(* at (\d+)\s*(am|pm) *)
HourAt(s, p) ==
    LET h1 == p + 3
        h2 == DigitsEnd(s, h1)
    IN  IF StartsAt(s, p, "at ") /\ h2 >= h1 /\ AmPmAt(s, h2 + 1) # ""
        THEN Clock(ParseInt(SubSeq(s, h1, h2)), 0, AmPmAt(s, h2 + 1))
        ELSE NoClock
(* (\d+)\s*(am|pm) *)
BareHourAt(s, p) ==
    LET h2 == DigitsEnd(s, p)
    IN  IF h2 >= p /\ AmPmAt(s, h2 + 1) # ""
        THEN Clock(ParseInt(SubSeq(s, p, h2)), 0, AmPmAt(s, h2 + 1))
        ELSE NoClock

(* re.search: the match at the leftmost position that has one. *)
SearchSpecific(s) ==
    LET ps == {p \in 1..Len(s) : SpecificAt(s, p).found}
    IN  IF ps = {} THEN NoClock ELSE SpecificAt(s, Least(ps))
SearchHour(s) ==
    LET ps == {p \in 1..Len(s) : HourAt(s, p).found}
    IN  IF ps = {} THEN NoClock ELSE HourAt(s, Least(ps))
SearchBareHour(s) ==
    LET ps == {p \in 1..Len(s) : BareHourAt(s, p).found}
    IN  IF ps = {} THEN NoClock ELSE BareHourAt(s, Least(ps))

(* `for pattern, pattern_type in time_patterns`: the first that matches. *)
FirstClock(s) ==
    IF SearchSpecific(s).found THEN SearchSpecific(s)
    ELSE IF SearchHour(s).found THEN SearchHour(s)
    ELSE SearchBareHour(s)

(* Mutant: 12 is added to every pm hour, 12 included. *)
To24Hour_NoonPlus12(hour, ampm) ==
    IF ampm = "pm" THEN hour + 12
    ELSE IF ampm = "am" /\ hour = 12 THEN 0
    ELSE hour
(* home_manager.py lines 134-138 *)
To24Hour(hour, ampm) ==
    IF ampm = "pm" /\ hour # 12 THEN hour + 12
    ELSE IF ampm = "am" /\ hour = 12 THEN 0
    ELSE hour

(* now.replace(hour=, minute=, second=0): the date and the microseconds of *)
(* now are kept.                                                           *)
ReplaceClock(t, hour, minute) ==
    Days(DateOf(t)) + Sec(hour * 3600 + minute * 60) + (t % TicksPerSecond)
(* now.replace(hour=19, minute=0): seconds and microseconds are kept. *)
ReplaceHourMinute(t, hour, minute) ==
    Days(DateOf(t)) + Sec(hour * 3600 + minute * 60) + (ClockOf(t) % Sec(60))

NoTime == [kind |-> "none", when |-> 0]
TimeRaised == [kind |-> "raised", when |-> 0]
Time(t) == [kind |-> "time", when |-> t]

(* home_manager.py lines 142-147 *)
RollOver(when, t, s) ==
    IF Contains(s, "tomorrow") THEN when + Days(1)
    ELSE IF when < t /\ ~Contains(s, "today") THEN when + Days(1)
    ELSE when

(* Mutant: the half hour is added to the time of day, on the date of now. *)
parse_time_HalfHourSameDay(s, t) ==
    LET c == FirstClock(s)
        hour == To24Hour(c.hour, c.ampm)
    IN  IF c.found
        THEN IF hour \notin 0..23 \/ c.minute \notin 0..59 THEN TimeRaised
             ELSE Time(RollOver(ReplaceClock(t, hour, c.minute), t, s))
        ELSE IF Contains(s, "in an hour") \/ Contains(s, "in 1 hour") THEN Time(t + Hours(1))
        ELSE IF Contains(s, "in 30 minutes") \/ Contains(s, "in half an hour")
             THEN Time(Days(DateOf(t)) + ((ClockOf(t) + Minutes(30)) % Days(1)))
        ELSE IF Contains(s, "tonight") THEN Time(ReplaceHourMinute(t, 19, 0))
        ELSE NoTime

(* _parse_time, home_manager.py lines 111-159; replace() raises ValueError *)
(* for an hour outside 0..23 or a minute outside 0..59.                    *)
parse_time(s, t) ==
    LET c == FirstClock(s)
        hour == To24Hour(c.hour, c.ampm)
    IN  IF c.found
        THEN IF hour \notin 0..23 \/ c.minute \notin 0..59 THEN TimeRaised
             ELSE Time(RollOver(ReplaceClock(t, hour, c.minute), t, s))
        ELSE IF Contains(s, "in an hour") \/ Contains(s, "in 1 hour") THEN Time(t + Hours(1))
        ELSE IF Contains(s, "in 30 minutes") \/ Contains(s, "in half an hour")
             THEN Time(t + Minutes(30))
        ELSE IF Contains(s, "tonight") THEN Time(ReplaceHourMinute(t, 19, 0))
        ELSE NoTime

(* The default of _parse_reminder, home_manager.py lines 104-106. *)
DefaultTime(t) ==
    LET when == ReplaceClock(t, 19, 0) IN IF when < t THEN when + Days(1) ELSE when

(***************************************************************************)
(* process_command, home_manager.py lines 20-48: the first branch whose    *)
(* phrase list has a phrase in the text.                                   *)
(***************************************************************************)
AnyIn(phrases, s) == \E w \in phrases : Contains(s, w)
Classify_MealsFirst(s) ==
    IF AnyIn({"briefing", "schedule today", "what's today"}, s) THEN "Briefing"
    ELSE IF AnyIn({"tomorrow", "next day"}, s) THEN "TomorrowPreview"
    ELSE IF AnyIn({"dinner", "meal", "what to cook", "eat tonight"}, s) THEN "DinnerSuggestion"
    ELSE IF AnyIn({"remind me", "remind us", "set reminder"}, s) THEN "CreateReminder"
    ELSE IF AnyIn({"activities", "busy tonight", "schedule"}, s) THEN "ActivitiesQuery"
    ELSE IF AnyIn({"help", "what can you do", "commands"}, s) THEN "Help"
    ELSE "Unknown"
Classify(s) ==
    IF AnyIn({"briefing", "schedule today", "what's today"}, s) THEN "Briefing"
    ELSE IF AnyIn({"tomorrow", "next day"}, s) THEN "TomorrowPreview"
    ELSE IF AnyIn({"remind me", "remind us", "set reminder"}, s) THEN "CreateReminder"
    ELSE IF AnyIn({"dinner", "meal", "what to cook", "eat tonight"}, s) THEN "DinnerSuggestion"
    ELSE IF AnyIn({"activities", "busy tonight", "schedule"}, s) THEN "ActivitiesQuery"
    ELSE IF AnyIn({"help", "what can you do", "commands"}, s) THEN "Help"
    ELSE "Unknown"

parse_reminder_NoBodyCheck(s, t, st) ==
    LET parsed == parse_time(s, t)
        when == IF parsed.kind = "time" THEN parsed.when ELSE DefaultTime(t)
    IN  IF parsed.kind = "raised" \/ ~LoadStore(st, Returned(<<>>)).ok
        THEN [store |-> st, ok |-> FALSE, reply |-> ""]
        ELSE [store |-> add_custom_reminder(st, ExtractMessage(s), when, t), ok |-> TRUE,
              reply |-> "reminder_set"]

(* _parse_reminder, home_manager.py lines 78-109: the store it leaves, the *)
(* kind of its reply, and whether it returned.                             *)
parse_reminder(s, t, st) ==
    LET message == ExtractMessage(s)
        parsed == parse_time(s, t)
        when == IF parsed.kind = "time" THEN parsed.when ELSE DefaultTime(t)
    IN  IF message = "" THEN [store |-> st, ok |-> TRUE, reply |-> "retry_hint"]
        ELSE IF parsed.kind = "raised" \/ ~LoadStore(st, Returned(<<>>)).ok
             THEN [store |-> st, ok |-> FALSE, reply |-> ""]
        ELSE [store |-> add_custom_reminder(st, message, when, t), ok |-> TRUE,
              reply |-> IF parsed.kind = "time" THEN "reminder_set"
                        ELSE "reminder_set_default"]

(* The branch of process_command for the text s, already lowered and       *)
(* stripped.  _get_tomorrow imports get_day_name and get_activities from   *)
(* config, which defines neither: the import raises ImportError.           *)
Dispatch(s, intent, t, st) ==
    CASE intent = "CreateReminder" ->
            [intent |-> intent] @@ parse_reminder(s, t, st)
      [] intent = "TomorrowPreview" ->
            [intent |-> intent, store |-> st, ok |-> FALSE, reply |-> ""]
      [] intent = "Briefing" ->
            [intent |-> intent, store |-> st, ok |-> TRUE, reply |-> "briefing"]
      [] intent = "DinnerSuggestion" ->
            [intent |-> intent, store |-> st, ok |-> TRUE, reply |-> "dinner"]
      [] intent = "ActivitiesQuery" ->
            [intent |-> intent, store |-> st, ok |-> TRUE, reply |-> "activities"]
      [] intent = "Help" ->
            [intent |-> intent, store |-> st, ok |-> TRUE, reply |-> "help"]
      [] OTHER ->
            [intent |-> intent, store |-> st, ok |-> TRUE, reply |-> "usage_hint"]

(* text = text.lower().strip() is computed once, then the branch is taken. *)
process_command(text, t, st) ==
    CHOOSE res \in {Dispatch(s, intent, t, st) :
                        s \in {Strip(Lower(text))},
                        intent \in {Classify(Strip(Lower(text)))}} : TRUE

Commands ==
    { "remind us to water plants tomorrow at 9am",
      "Remind me to water plants at 5:45pm",
      "remind me to call nana",
      "remind me",
      "set reminder",
      "remind me   at 5pm",
      "remind me to check on dinner",
      "WHAT'S TODAY",
      "dinner ideas",
      "help with the schedule",
      "asdkfj" }

CommandFrom(texts) ==
    \E text \in texts :
        \E res \in {process_command(text, now, store)} :
            /\ (res.store # store) => Len(store.records) < MaxStore
            /\ store' = res.store
            /\ ret' = [Result("process_command", text, res.ok, <<>>, <<>>, res.reply)
                          EXCEPT !.intent = res.intent]
            /\ UNCHANGED <<now, sent_reminders, sinkLog, writers>>

ProcessCommand == CommandFrom(Commands)

(***************************************************************************)
(* The clock.  It only moves forward; the instants are the ones around     *)
(* the due times of Wednesday 2024-01-03 and the following midnight.       *)
(***************************************************************************)
ClockTimes ==
    { At(2, 7, 0, 0),
      At(2, 16, 25, 0), At(2, 16, 25, 0) + 1,
      At(2, 16, 30, 0) + 1, At(2, 16, 35, 0),
      At(2, 17, 41, 0), At(2, 17, 44, 0),
      At(2, 23, 58, 0), At(3, 0, 1, 0) }

Tick(times) ==
    \E t \in times :
        /\ t > now
        /\ now' = t
        /\ ret' = NoResult
        /\ UNCHANGED <<store, sent_reminders, sinkLog, writers>>

Advance == Tick(ClockTimes)

(***************************************************************************)
(* The state at process start: the file as earlier runs or the             *)
(* environment left it, an empty ledger, nothing handed to the sink.       *)
(***************************************************************************)
StoredReminders ==
    ListStore(<< NewRecord("water plants", At(1, 17, 45, 0), At(1, 9, 0, 0)),
                 NewRecord("call \"nana\"", At(2, 17, 45, 0), At(1, 9, 0, 0) + 1),
                 NewRecord("water plants", At(3, 0, 2, 0), At(1, 9, 5, 0)) >>)
RecordWithoutTime ==
    ListStore(<<[message |-> "no time", created |-> IsoFormat(At(1, 9, 0, 0))]>>)

InitialStores == {AbsentStore, CorruptStore, RecordWithoutTime, StoredReminders}

Init ==
    /\ now = At(2, 7, 0, 0)
    /\ store \in InitialStores
    /\ sent_reminders = {}
    /\ sinkLog = <<>>
    /\ ret = NoResult
    /\ writers = NoWriters

(***************************************************************************)
(* The reading side: the clock, the aggregator and the dispatcher.  None   *)
(* of them writes the store.                                               *)
(***************************************************************************)
Next ==
    \/ Advance
    \/ SendDueReminders
    \/ GetUpcomingReminders

Spec == Init /\ [][Next]_vars

(***************************************************************************)
(* A poller that calls send_due_reminders of one SmartReminderSystem       *)
(* again and again, at most POLL_GAP_SECONDS after the call before, with   *)
(* a sink that accepts every message.                                      *)
(***************************************************************************)
POLL_GAP_SECONDS == 2 * WINDOW_SECONDS

PollTimes ==
    ClockTimes \cup
    { At(2, 16, 15, 0), At(2, 16, 20, 0), At(2, 16, 24, 0), At(2, 16, 30, 0),
      At(2, 16, 34, 0), At(2, 16, 40, 0), At(2, 17, 35, 0), At(2, 17, 50, 0),
      At(2, 23, 50, 0), At(3, 0, 5, 0) }

InitPoll ==
    /\ now \in PollTimes
    /\ store \in InitialStores
    /\ sent_reminders = {}
    /\ sinkLog = <<>>
    /\ ret = NoResult
    /\ writers = NoWriters

PollDue ==
    \E t \in PollTimes :
        /\ ret.op = "send_due_reminders" => (t > now /\ t - now <= Sec(POLL_GAP_SECONDS))
        /\ ret.op # "send_due_reminders" => t = now
        /\ LET res == send_due_reminders(t, store, sent_reminders, sinkLog, 0)
           IN  /\ now' = t
               /\ sent_reminders' = res.ledger
               /\ sinkLog' = res.log
               /\ ret' = [SendResult(res) EXCEPT !.at = t]
               /\ UNCHANGED <<store, writers>>

NextPoll == PollDue

SpecPoll == InitPoll /\ [][NextPoll]_vars

(***************************************************************************)
(* The writing side: reminders are added to the store and read back.       *)
(***************************************************************************)
InitStore ==
    /\ now = At(2, 7, 0, 0)
    /\ store \in {AbsentStore, CorruptStore, ListStore(<<>>), RecordWithoutTime}
    /\ sent_reminders = {}
    /\ sinkLog = <<>>
    /\ ret = NoResult
    /\ writers = NoWriters

StoreTimes == {At(2, 7, 0, 0), At(2, 17, 41, 0) + 1, At(3, 0, 1, 0)}

AdvanceStore == Tick(StoreTimes)

NextStore ==
    \/ AdvanceStore
    \/ AddCustomReminder
    \/ ProcessCommand

SpecStore == InitStore /\ [][NextStore]_vars

(***************************************************************************)
(* Properties.                                                             *)
(***************************************************************************)
Range(list) == {list[i] : i \in 1..Len(list)}
SameReminder(a, b) == a.time = b.time /\ a.message = b.message
HandedIn(log, r) == \E i \in 1..Len(log) : SameReminder(log[i], r)
JustSent == ret.op = "send_due_reminders"
JustListed == ret.op = "get_upcoming_reminders"
DueNow == {r \in Range(get_upcoming_reminders(now, 1, store).val) : InWindow(r, now)}

(* C1: within one SmartReminderSystem no reminder (same due time, same     *)
(* message) is handed to the sink twice, whatever the calls and their      *)
(* times; and once a call made inside a produced reminder's window has     *)
(* returned, exactly one invocation of the sink carries that reminder's    *)
(* key, however many calls were made in the window.                        *)
C1_DeliveredAtMostOnce ==
    /\ \A i, j \in 1..Len(sinkLog) : SameReminder(sinkLog[i], sinkLog[j]) => i = j
    /\ (JustSent /\ ret.ok) =>
          \A r \in DueNow :
              Cardinality({i \in 1..Len(sinkLog) : ReminderId(sinkLog[i]) = ReminderId(r)}) = 1

(* A second call inside the window of a reminder that an earlier call      *)
(* delivered: it returns an empty list.                                    *)
C1_Witness ==
    /\ JustSent /\ ret.ok /\ ret.out = <<>>
    /\ \E i \in 1..Len(sinkLog) :
          /\ sinkLog[i].ok /\ sinkLog[i].at < now
          /\ sinkLog[i].time > now /\ InWindow(sinkLog[i], now)

(* C2: when the sink fails for a reminder, the reminder's key is not in    *)
(* the ledger after the call (so that a later call retries it).            *)
C2_FailedKeyNotInLedger ==
    (JustSent /\ ret.failed # <<>>) => ReminderId(ret.failed[1]) \notin sent_reminders

(* C3: a sink failure on one reminder does not abort the batch: every      *)
(* reminder due in that call has been handed to the sink when it ends.     *)
C3_FailureDoesNotAbortBatch ==
    (JustSent /\ ret.failed # <<>>) => \A r \in DueNow : HandedIn(sinkLog, r)

(* C4: with calls at most 10 minutes apart and a sink that never fails,    *)
(* a reminder the adapters produced at one call has been delivered by the  *)
(* end of the first call made at or after its due time.                    *)
C4_NoReminderMissed ==
    [][(JustSent /\ ret.ok) =>
          \A r \in Range(all_reminders(now, store).val) :
              r.time <= now' => HandedIn(sinkLog', r)]_vars

(* C5: a call that returns delivers (or finds delivered) every reminder    *)
(* of the day whose due time is less than 300 seconds away from now,       *)
(* before it or after it.                                                  *)
RemindersOfDay == Range(all_reminders(Combine(DateOf(now), 0), store).val)
C5_DeliversEarlyAndLate ==
    (JustSent /\ ret.ok) =>
        \A r \in RemindersOfDay : InWindow(r, now) => HandedIn(sinkLog, r)

(* C6: the list get_upcoming_reminders returns is sorted non-decreasing    *)
(* by due time and none of its entries is due after now + hours_ahead.     *)
C6_UpcomingSortedAndBounded ==
    (JustListed /\ ret.ok) =>
        /\ \A i, j \in 1..Len(ret.out) : i < j => ret.out[i].time <= ret.out[j].time
        /\ \A i \in 1..Len(ret.out) : ret.out[i].time <= ret.at + Hours(ret.arg)

(* The sort moved a recurring reminder in front of the activity-prep      *)
(* reminders, and the cutoff removed a reminder of the day.                *)
C6_Witness ==
    /\ JustListed /\ ret.ok
    /\ \E i, j \in 1..Len(ret.out) :
          i < j /\ ret.out[i].type = "recurring" /\ ret.out[j].type = "activity_prep"
    /\ Len(ret.out) < Len(all_reminders(now, store).val)

(* C7: every reminder an adapter produces, and so every reminder listed    *)
(* or handed to the sink, is due on the date of the clock reading that     *)
(* generated it and strictly after that reading; a stored reminder of an   *)
(* earlier date is never among them.                                       *)
TodayAndFuture(r, t) == DateOf(r.time) = DateOf(t) /\ r.time > t
C7_OnlyTodayAndFuture ==
    /\ \A r \in Range(get_activity_prep_reminders(now)) \cup Range(get_recurring_reminders(now))
                \cup Range(get_bedtime_reminders(now))
                \cup Range(check_custom_reminders(now, store).val) : TodayAndFuture(r, now)
    /\ JustListed => \A r \in Range(ret.out) : TodayAndFuture(r, ret.at)
    /\ \A i \in 1..Len(sinkLog) : TodayAndFuture(sinkLog[i], sinkLog[i].at)

(* The store holds a reminder dated yesterday and one dated tomorrow, a    *)
(* custom reminder of today is listed, and one has been handed over.       *)
C7_Witness ==
    /\ JustListed /\ ret.ok
    /\ \E r \in Range(ret.out) : r.type = "custom"
    /\ \E i \in 1..Len(store.records) :
          DateOf(FromIsoFormat(store.records[i].time)) < DateOf(now)
    /\ \E i \in 1..Len(store.records) :
          DateOf(FromIsoFormat(store.records[i].time)) > DateOf(now)
    /\ \E i \in 1..Len(sinkLog) : sinkLog[i].message = "call \"nana\""

(* C8: after add_custom_reminder(m, t) has completed, reading the store    *)
(* yields the records it held before the call, in their order, followed    *)
(* by a record whose message is m and whose time reads back as t.          *)
C8_AddRoundTrip ==
    [][(ret'.op = "add_custom_reminder" /\ ret'.ok) =>
          LET before == LoadStore(store, Returned(<<>>)).val
              after == LoadStore(store', Raised)
              n == Len(after.val)
          IN  /\ after.ok
              /\ n = Len(before) + 1
              /\ SubSeq(after.val, 1, n - 1) = before
              /\ after.val[n].message = ret'.arg[1]
              /\ FromIsoFormat(after.val[n].time) = ret'.arg[2]]_vars

(* A reminder whose message holds quotes and whose time has a fraction of  *)
(* a second was added to a store that already held a record.               *)
C8_Witness ==
    /\ ret.op = "add_custom_reminder" /\ ret.ok
    /\ Len(store.records) = 2
    /\ ret.arg[1] = "call \"nana\"" /\ ret.arg[2] % TicksPerSecond # 0

(* C9: an absent or corrupt store (unparseable, or a record without its    *)
(* time field) reads as the empty list: the custom adapter returns no      *)
(* reminder and raises nothing, and the aggregator returns the reminders   *)
(* of the other three adapters.                                            *)
Unreadable(st) ==
    \/ st.state # "list"
    \/ \E i \in 1..Len(st.records) : {"time", "message"} \ DOMAIN st.records[i] # {}
C9_UnreadableStoreIsEmpty ==
    (JustListed /\ Unreadable(store)) =>
        /\ check_custom_reminders(ret.at, store) = Returned(<<>>)
        /\ ret.ok
        /\ ret.out = get_upcoming_reminders(ret.at, ret.arg, AbsentStore).val

(* C10: "remind us to water plants tomorrow at 9am" is taken as a          *)
(* CreateReminder command and appends a record with the message "water     *)
(* plants" and the time 09:00 of the day after today.                      *)
C10_TomorrowReminderCreated ==
    (/\ ret.op = "process_command"
     /\ ret.arg = "remind us to water plants tomorrow at 9am"
     /\ store.state # "corrupt") =>
        /\ ret.intent = "CreateReminder"
        /\ store.state = "list" /\ Len(store.records) >= 1
        /\ store.records[Len(store.records)].message = "water plants"
        /\ FromIsoFormat(store.records[Len(store.records)].time)
              = Combine(DateOf(ret.at) + 1, TimeOfDay(9, 0))

(* C11: process_command dispatches to the first intent, in the order       *)
(* Briefing, TomorrowPreview, CreateReminder, DinnerSuggestion,            *)
(* ActivitiesQuery, Help, one of whose phrases is in the text whatever its *)
(* case, and to Unknown (the usage hint) when there is none.               *)
IntentOrder ==
    << <<"Briefing", {"briefing", "schedule today", "what's today"}>>,
       <<"TomorrowPreview", {"tomorrow", "next day"}>>,
       <<"CreateReminder", {"remind me", "remind us", "set reminder"}>>,
       <<"DinnerSuggestion", {"dinner", "meal", "what to cook", "eat tonight"}>>,
       <<"ActivitiesQuery", {"activities", "busy tonight", "schedule"}>>,
       <<"Help", {"help", "what can you do", "commands"}>> >>
Matching(text) ==
    {i \in 1..Len(IntentOrder) : \E w \in IntentOrder[i][2] : Contains(Lower(text), w)}
FirstIntent(text) ==
    IF Matching(text) = {} THEN "Unknown" ELSE IntentOrder[Least(Matching(text))][1]
JustCommanded == ret.op = "process_command"
NoBodyTexts ==
    {text \in Commands : \E s \in {Strip(Lower(text))} : ExtractMessage(s) = ""}
C12_NoBodyNoRecord ==
    [][JustCommanded' =>
          /\ (ret'.intent = "CreateReminder" /\ ret'.arg \in NoBodyTexts)
                 => (ret'.ok /\ ret'.reply = "retry_hint" /\ store' = store)
          /\ {"remind me", "set reminder"} \subseteq NoBodyTexts
          /\ store'.state = "list" =>
                 \A i \in (Len(store.records) + 1)..Len(store'.records) :
                     store'.records[i].message # ""]_vars

(* The pattern matched but its body was blank: the hint was returned to a  *)
(* store that holds records.                                               *)
C12_Witness ==
    /\ JustCommanded /\ ret.arg = "remind me   at 5pm"
    /\ ret.intent = "CreateReminder" /\ ret.reply = "retry_hint"
    /\ store.state = "list" /\ Len(store.records) >= 1

(***************************************************************************)
(* _parse_time on its own: texts that name a clock time, a relative time   *)
(* or none, read at instants around 19:00 and around midnight.             *)
(***************************************************************************)
TimeTexts ==
    { "remind me at 7pm",
      "remind me to go at 13pm",
      "remind me at 25:00",
      "remind me at 7:75",
      "remind me to study tonight",
      "remind me to water plants today at 6am",
      "remind me to eat at 7:30pm today",
      "remind us to water plants tomorrow at 9am",
      "remind me to call at 12am",
      "in 30 minutes",
      "remind me in 30 minutes to stretch",
      "remind me in an hour or in 30 minutes",
      "remind me to call nana" }

ParseTimes ==
    { At(2, 7, 0, 0),
      At(2, 18, 59, 59) + 1, At(2, 19, 0, 0), At(2, 19, 0, 0) + 1, At(2, 19, 0, 30),
      At(2, 19, 45, 0), At(2, 23, 45, 0), At(2, 23, 45, 30) + 1, At(3, 5, 0, 0) }

AdvanceParse == Tick(ParseTimes)

(* when = self._parse_time(text): a datetime, None, or ValueError. *)
ParseTime ==
    \E text \in TimeTexts :
        \E parsed \in {parse_time(text, now)} :
            /\ ret' = Result("parse_time", text, parsed.kind # "raised",
                             IF parsed.kind = "time" THEN <<parsed.when>> ELSE <<>>,
                             <<>>, parsed.kind)
            /\ UNCHANGED <<now, store, sent_reminders, sinkLog, writers>>

InitParse ==
    /\ now = At(2, 7, 0, 0)
    /\ store = AbsentStore
    /\ sent_reminders = {}
    /\ sinkLog = <<>>
    /\ ret = NoResult
    /\ writers = NoWriters

NextParse ==
    \/ AdvanceParse
    \/ ParseTime

SpecParse == InitParse /\ [][NextParse]_vars

JustParsed == ret.op = "parse_time"

(* C13: _parse_time on "remind me at 7pm" returns 19:00 of today when now  *)
(* is before 19:00 and 19:00 of the next day otherwise, at 19:00 sharp     *)
(* included (the result is compared to the second).                        *)
ToTheSecond(t) == t - (t % TicksPerSecond)
C13_SevenPmTodayOrTomorrow ==
    (JustParsed /\ ret.arg = "remind me at 7pm") =>
        /\ ret.ok /\ Len(ret.out) = 1
        /\ ToTheSecond(ret.out[1]) =
              IF ClockOf(ret.at) < TimeOfDay(19, 0)
              THEN Combine(DateOf(ret.at), TimeOfDay(19, 0))
              ELSE Combine(DateOf(ret.at) + 1, TimeOfDay(19, 0))

(* C14: _parse_time never raises: it returns a timestamp or None, also     *)
(* for digits that give no clock time ("at 13pm", "at 25:00", "at 7:75").  *)
C14_ParseTimeNeverRaises ==
    JustParsed => ret.ok

(* C15: every timestamp _parse_time returns is strictly later than now,    *)
(* for "tonight" after 19:00 and a clock time with "today" as well.        *)
C15_ParsedTimeInFuture ==
    (JustParsed /\ ret.ok) => \A i \in 1..Len(ret.out) : ret.out[i] > ret.at

(***************************************************************************)
(* check_and_send, reminders.py lines 207-217, called again and again by   *)
(* one process: each call builds a SmartReminderSystem of its own, whose   *)
(* ledger starts empty and is dropped when the call returns.  Each call    *)
(* reads the clock later than the call before.                             *)
(***************************************************************************)
CheckAndSend ==
    /\ ret.op # "check_and_send"
    /\ \E res \in {send_due_reminders(now, store, {}, sinkLog, 0)} :
          /\ sinkLog' = res.log
          /\ ret' = [SendResult(res) EXCEPT !.op = "check_and_send"]
          /\ UNCHANGED <<now, store, sent_reminders, writers>>

NextCheck ==
    \/ Advance
    \/ CheckAndSend

SpecCheck == Init /\ [][NextCheck]_vars

AllDone == \A p \in Procs : writers.proc[p].pc = "done"
Serial == writers.order \in {<<1, 1, 2, 2>>, <<2, 2, 1, 1>>}
Added(p) == writers.proc[p].custom[Len(writers.proc[p].custom)]
C17_SerialKeepsBoth ==
    AllDone =>
        LET n == Len(store.records)
            first == writers.order[1]
            last == writers.order[4]
        IN  /\ store.state = "list"
            /\ store.records = writers.proc[last].custom
            /\ Serial => /\ n >= 2
                          /\ store.records[n] = Added(last)
                          /\ SubSeq(store.records, 1, n - 1) = writers.proc[first].custom

(* Both processes read the store before either wrote it: the record of    *)
(* the process that wrote first is not in the final store.                 *)
C17_Witness ==
    /\ AllDone /\ ~Serial
    /\ \E p \in Procs :
          /\ writers.order[4] # p
          /\ \A i \in 1..Len(store.records) : store.records[i] # Added(p)
    /\ Len(store.records) = Len(writers.proc[1].custom)
    /\ Len(store.records) = Len(writers.proc[2].custom)

(* C18: _parse_time on a text that contains "in 30 minutes" and no clock   *)
(* time returns now + 30 minutes exactly, across an hour or midnight       *)
(* boundary too.                                                           *)
HalfHourTexts ==
    {text \in TimeTexts : Contains(text, "in 30 minutes") /\ ~FirstClock(text).found}
C18_HalfHourExact ==
    (JustParsed /\ ret.arg \in HalfHourTexts) =>
        /\ ret.ok
        /\ ret.out = <<ret.at + Minutes(30)>>

(* C18, amended: the same for a text that contains "in 30 minutes", no     *)
(* clock time, and neither "in an hour" nor "in 1 hour".                   *)
HalfHourOnlyTexts ==
    {text \in HalfHourTexts : ~Contains(text, "in an hour") /\ ~Contains(text, "in 1 hour")}
C18_HalfHourExactWithoutHour ==
    (JustParsed /\ ret.arg \in HalfHourOnlyTexts) =>
        /\ ret.ok
        /\ ret.out = <<ret.at + Minutes(30)>>

(* "in 30 minutes" asked at 23:45 gives 00:15 of the next day. *)
C18_Witness ==
    /\ JustParsed /\ ret.arg = "remind me in 30 minutes to stretch"
    /\ ret.arg \in HalfHourOnlyTexts
    /\ ret.at = At(2, 23, 45, 0)
    /\ ret.out = <<At(3, 0, 15, 0)>>

(***************************************************************************)
(* The four adapters as get_upcoming_reminders calls them, reminders.py    *)
(* lines 127-130, under a configuration whose prep mapping is the one of   *)
(* config.py, a part of it, or empty; on every day of a week.              *)
(***************************************************************************)
KumonOnly == [n \in {"Kumon"} |-> PREP_REMINDERS[n]]
NoPrepReminders == [n \in {} |-> PREP_REMINDERS[n]]
PrepMappings == {PREP_REMINDERS, KumonOnly, NoPrepReminders}

WeekTimes ==
    {At(d, 7, 0, 0) : d \in 0..6} \cup {At(d, 16, 20, 0) : d \in 0..6}

AdvanceWeek == Tick(WeekTimes)

CallAdapters ==
    \E prep \in PrepMappings :
        \E custom \in {check_custom_reminders(now, store)} :
            /\ ret' = Result("adapters", prep, custom.ok,
                             << PrepRemindersUnder(prep, now), get_recurring_reminders(now),
                                get_bedtime_reminders(now), custom.val >>,
                             <<>>, "")
            /\ UNCHANGED <<now, store, sent_reminders, sinkLog, writers>>

InitConfig ==
    /\ now = At(0, 7, 0, 0)
    /\ store \in {AbsentStore, CorruptStore, StoredReminders}
    /\ sent_reminders = {}
    /\ sinkLog = <<>>
    /\ ret = NoResult
    /\ writers = NoWriters

NextConfig ==
    \/ AdvanceWeek
    \/ CallAdapters

SpecConfig == InitConfig /\ [][NextConfig]_vars

(* C19: with an empty prep mapping the activity-prep adapter returns no    *)
(* candidates, at every now and on every weekday, and the recurring, the   *)
(* bedtime and the custom adapter return what they return, at the same     *)
(* now and over the same store, with a non-empty mapping.                  *)
C19_EmptyMappingOnlyEmptiesPrep ==
    [][ (ret'.op = "adapters" /\ DOMAIN ret'.arg = {}) =>
            /\ ret'.out[1] = <<>>
            /\ (ret.op = "adapters" /\ ret.at = ret'.at /\ DOMAIN ret.arg # {}) =>
                    /\ ret'.ok = ret.ok
                    /\ \A k \in 2..4 : ret'.out[k] = ret.out[k] ]_vars

(* A Wednesday morning, with activities ahead: the empty mapping gives no  *)
(* prep candidate while the three other adapters each give some.           *)
C19_Witness ==
    /\ ret.op = "adapters" /\ DOMAIN ret.arg = {}
    /\ DayName(ret.at) = "wednesday"
    /\ get_today_activities(ret.at) # <<>>
    /\ get_activity_prep_reminders(ret.at) # <<>>
    /\ ret.out[1] = <<>>
    /\ \A k \in 2..4 : ret.out[k] # <<>>

(* C20: day rollover of _parse_time for a text that names a clock time.    *)
(* With "tomorrow" in the text the result is that clock time on the day    *)
(* after today, passed or not; otherwise, when the clock time on today's   *)
(* date is earlier than now and the text has no "today", it is on the      *)
(* next day; in every other case it is on today's date.  The result is     *)
(* compared to the second.                                                 *)
NamedClock ==
    ("remind me at 7pm" :> TimeOfDay(19, 0))
    @@ ("remind me to water plants today at 6am" :> TimeOfDay(6, 0))
    @@ ("remind me to eat at 7:30pm today" :> TimeOfDay(19, 30))
    @@ ("remind us to water plants tomorrow at 9am" :> TimeOfDay(9, 0))
    @@ ("remind me to call at 12am" :> TimeOfDay(0, 0))
C20_DayRollover ==
    (JustParsed /\ ret.arg \in DOMAIN NamedClock) =>
        LET onToday == Combine(DateOf(ret.at), NamedClock[ret.arg])
            expected ==
                IF Contains(ret.arg, "tomorrow") THEN onToday + Days(1)
                ELSE IF onToday < ret.at /\ ~Contains(ret.arg, "today") THEN onToday + Days(1)
                ELSE onToday
        IN  /\ ret.ok /\ Len(ret.out) = 1
            /\ ToTheSecond(ret.out[1]) = expected

(***************************************************************************)
(* One process that takes reminder commands (process_command) and polls    *)
(* with one SmartReminderSystem (send_due_reminders): the same command may *)
(* be entered more than once, at different instants, before the reminder   *)
(* is due.                                                                 *)
(***************************************************************************)
RepeatedCommands ==
    { "Remind me to water plants at 5:45pm",
      "remind me to water plants at 5:45pm please" }

EntryTimes ==
    { At(2, 7, 0, 0), At(2, 7, 0, 0) + 1, At(2, 17, 41, 0), At(2, 17, 44, 0) }

AdvanceEntry == Tick(EntryTimes)

EnterReminder == CommandFrom(RepeatedCommands)

InitEntry ==
    /\ now = At(2, 7, 0, 0)
    /\ store \in {AbsentStore, ListStore(<<>>)}
    /\ sent_reminders = {}
    /\ sinkLog = <<>>
    /\ ret = NoResult
    /\ writers = NoWriters

NextEntry ==
    \/ AdvanceEntry
    \/ EnterReminder
    \/ SendDueReminders

SpecEntry == InitEntry /\ [][NextEntry]_vars

(* C21: the key of a reminder is its due time cut to the minute and the    *)
(* first 20 characters of its message: of two reminders due in the same    *)
(* minute with the same message prefix, one SmartReminderSystem delivers   *)
(* at most one (the same command entered twice fires once).                *)
ToTheMinute(t) == t - (t % Minutes(1))
SameKey(a, b) ==
    /\ ToTheMinute(a.time) = ToTheMinute(b.time)
    /\ Prefix(a.message, ID_PREFIX_LEN) = Prefix(b.message, ID_PREFIX_LEN)
C21_OneDeliveryPerKey ==
    \A i, j \in 1..Len(sinkLog) :
        (sinkLog[i].ok /\ sinkLog[j].ok /\ SameKey(sinkLog[i], sinkLog[j])) => i = j

(* C22: send_due_reminders returns exactly the reminders it handed to the  *)
(* sink in that call; each of them is due less than 300 seconds from now   *)
(* and had its key absent from the ledger before the call; a reminder due  *)
(* 300 seconds or more from now is not handed over and its key is not      *)
(* inserted.                                                               *)
Within300(r, t) == Abs(r.time - t) < Sec(300)
C22_SentAreDueAndNew ==
    [][ ret'.op = "send_due_reminders" =>
          LET handed == SubSeq(sinkLog', Len(sinkLog) + 1, Len(sinkLog'))
              inserted == sent_reminders' \ sent_reminders
          IN  /\ SubSeq(sinkLog', 1, Len(sinkLog)) = sinkLog
              /\ ret'.ok =>
                    /\ Len(ret'.out) = Len(handed)
                    /\ \A i \in 1..Len(handed) :
                          handed[i].ok /\ SameReminder(ret'.out[i], handed[i])
              /\ \A i \in 1..Len(handed) :
                    /\ handed[i].at = now'
                    /\ Within300(handed[i], now')
                    /\ ReminderId(handed[i]) \notin sent_reminders
              /\ \A id \in inserted : \E i \in 1..Len(handed) : ReminderId(handed[i]) = id
              /\ \A r \in Range(all_reminders(now', store').val) :
                    ~Within300(r, now') =>
                        /\ ~HandedIn(handed, r)
                        /\ ReminderId(r) \notin inserted ]_vars

(* A call that returned a reminder it delivered while another reminder of  *)
(* the day, 300 seconds or more away, stayed out of the sink and of the    *)
(* ledger.                                                                 *)
C22_Witness ==
    /\ JustSent /\ ret.ok /\ ret.out # <<>>
    /\ \A i \in 1..Len(ret.out) : HandedIn(sinkLog, ret.out[i])
    /\ \E r \in Range(all_reminders(now, store).val) :
          /\ ~Within300(r, now)
          /\ ~HandedIn(sinkLog, r)
          /\ ReminderId(r) \notin sent_reminders

(* C23: among reminders with equal due time, get_upcoming_reminders keeps  *)
(* the order of the concatenation: activity-prep before recurring before   *)
(* bedtime before custom, and the entries of one adapter in the order the  *)
(* adapter gave them.                                                      *)
AdapterRank(type) ==
    CASE type = "activity_prep" -> 1
      [] type = "recurring" -> 2
      [] type = "bedtime" -> 3
      [] type = "custom" -> 4
DueAt(list, t) == SelectSeq(list, LAMBDA r : r.time = t)
Concatenated(t, st) ==
    get_activity_prep_reminders(t) \o get_recurring_reminders(t)
        \o get_bedtime_reminders(t) \o check_custom_reminders(t, st).val
C23_TiesKeepAdapterOrder ==
    (JustListed /\ ret.ok) =>
        /\ \A i, j \in 1..Len(ret.out) :
              (i < j /\ ret.out[i].time = ret.out[j].time)
                  => AdapterRank(ret.out[i].type) <= AdapterRank(ret.out[j].type)
        /\ \A i \in 1..Len(ret.out) :
              DueAt(ret.out, ret.out[i].time)
                  = DueAt(Concatenated(ret.at, store), ret.out[i].time)

(* Two activity-prep reminders and a custom reminder are due at the same   *)
(* time, later than a recurring reminder that the sort moved to the front. *)
C23_Witness ==
    /\ JustListed /\ ret.ok
    /\ \E i, j, k \in 1..Len(ret.out) :
          /\ i < j /\ j < k
          /\ ret.out[i].time = ret.out[j].time /\ ret.out[j].time = ret.out[k].time
          /\ ret.out[i].type = "activity_prep" /\ ret.out[j].type = "activity_prep"
          /\ ret.out[i].message # ret.out[j].message
          /\ ret.out[k].type = "custom"
    /\ ret.out[1].type = "recurring"

(***************************************************************************)
(* One process that adds reminders and, with one SmartReminderSystem,      *)
(* lists and dispatches them, from before the reminders are due until      *)
(* after they have expired.                                                *)
(***************************************************************************)
OneStored == ListStore(<<NewRecord("water plants", At(1, 17, 45, 0), At(1, 9, 0, 0))>>)

WriterTimes == {At(2, 7, 0, 0), At(2, 17, 41, 0), At(2, 17, 46, 0)}

AdvanceWriter == Tick(WriterTimes)

InitWriter ==
    /\ now = At(2, 7, 0, 0)
    /\ store \in {AbsentStore, CorruptStore, OneStored}
    /\ sent_reminders = {}
    /\ sinkLog = <<>>
    /\ ret = NoResult
    /\ writers = NoWriters

NextWriter ==
    \/ AdvanceWriter
    \/ AddCustomReminder
    \/ GetUpcomingReminders
    \/ SendDueReminders

SpecWriter == InitWriter /\ [][NextWriter]_vars

(* C24: with a single writer the stored list only grows at its end: over   *)
(* every call the list before is a prefix of the list after (a missing     *)
(* store being the empty list); an add_custom_reminder that returns adds   *)
(* exactly one record, the new one, at the end; get_upcoming_reminders     *)
(* and send_due_reminders leave the store as it is.                        *)
StoredList(st) == IF st.state = "list" THEN st.records ELSE <<>>
IsPrefix(a, b) == Len(a) <= Len(b) /\ SubSeq(b, 1, Len(a)) = a
C24_StoreAppendOnly ==
    [][ /\ IsPrefix(StoredList(store), StoredList(store'))
        /\ store.state = "list" => store'.state = "list"
        /\ (ret'.op = "add_custom_reminder" /\ ret'.ok) =>
              /\ store'.state = "list"
              /\ Len(StoredList(store')) = Len(StoredList(store)) + 1
              /\ store'.records[Len(store'.records)].message = ret'.arg[1]
              /\ store'.records[Len(store'.records)].created = IsoFormat(now)
        /\ ret'.op \in {"get_upcoming_reminders", "send_due_reminders"} => store' = store
      ]_vars

(* A reminder was delivered and has expired; a reminder added after that   *)
(* stands behind its record, which is still in the store.                  *)
C24_Witness ==
    /\ ret.op = "add_custom_reminder" /\ ret.ok
    /\ store.state = "list" /\ Len(store.records) = 2
    /\ "time" \in DOMAIN store.records[1]
    /\ FromIsoFormat(store.records[1].time) < now
    /\ \E i \in 1..Len(sinkLog) :
          /\ sinkLog[i].ok
          /\ sinkLog[i].message = store.records[1].message
          /\ sinkLog[i].time = FromIsoFormat(store.records[1].time)
    /\ FromIsoFormat(store.records[2].created) > FromIsoFormat(store.records[1].time)

(***************************************************************************)
(* _parse_time on the 12-hour clock: every hour 1..12 with am and pm, in   *)
(* the three shapes the patterns of home_manager.py lines 117-119 take     *)
(* ("at H:MM am", "at H am", "H am"), as <<text, hour, minute, suffix>>.   *)
(***************************************************************************)
ClockCases ==
    {<<"remind me at " \o ToString(h) \o ":05" \o sfx, h, 5, sfx>> :
        h \in 1..12, sfx \in {"am", "pm"}}
    \cup {<<"remind me at " \o ToString(h) \o ":30 " \o sfx, h, 30, sfx>> :
        h \in 1..12, sfx \in {"am", "pm"}}
    \cup {<<"remind me at " \o ToString(h) \o sfx, h, 0, sfx>> :
        h \in 1..12, sfx \in {"am", "pm"}}
    \cup {<<"call nana " \o ToString(h) \o " " \o sfx, h, 0, sfx>> :
        h \in 1..12, sfx \in {"am", "pm"}}

ClockReadings == {At(2, 7, 0, 0), At(2, 12, 0, 0) + 1, At(2, 23, 30, 0)}

AdvanceClock == Tick(ClockReadings)

ParseClock ==
    \E c \in ClockCases :
        \E parsed \in {parse_time(c[1], now)} :
            /\ ret' = Result("parse_time", c[1], parsed.kind # "raised",
                             IF parsed.kind = "time" THEN <<parsed.when>> ELSE <<>>,
                             <<>>, parsed.kind)
            /\ UNCHANGED <<now, store, sent_reminders, sinkLog, writers>>

InitClock ==
    /\ now = At(2, 7, 0, 0)
    /\ store = AbsentStore
    /\ sent_reminders = {}
    /\ sinkLog = <<>>
    /\ ret = NoResult
    /\ writers = NoWriters

NextClock ==
    \/ AdvanceClock
    \/ ParseClock

SpecClock == InitClock /\ [][NextClock]_vars

(* C25: for every hour 1..12 and suffix, _parse_time returns a time whose  *)
(* hour is 12 for 12 pm, hour + 12 for 1..11 pm, 0 for 12 am and the hour  *)
(* itself for 1..11 am, always in 0..23, and whose minute is the minute    *)
(* of the text, 0 when it names none.                                      *)
Hour24(h, sfx) ==
    CASE sfx = "pm" /\ h = 12 -> 12
      [] sfx = "pm" /\ h # 12 -> h + 12
      [] sfx = "am" /\ h = 12 -> 0
      [] sfx = "am" /\ h # 12 -> h
C25_TwelveHourClock ==
    JustParsed =>
        \A c \in ClockCases :
            ret.arg = c[1] =>
                /\ ret.ok /\ Len(ret.out) = 1
                /\ Hour24(c[2], c[4]) \in 0..23
                /\ ClockOf(ToTheSecond(ret.out[1])) = Hours(Hour24(c[2], c[4])) + Minutes(c[3])

(* "at 12:30 pm" asked at 07:00 is 12:30 of the same day. *)
C25_Witness ==
    /\ JustParsed /\ ret.ok /\ Len(ret.out) = 1
    /\ ret.arg = "remind me at 12:30 pm"
    /\ ret.out[1] = At(2, 12, 30, 0)

====
